---- MODULE Spec2Model ----
(***************************************************************************)
(* Model of the remirror CommandsExtension: the registry build driven by   *)
(* the onCreate / onView lifecycle hooks, the unchained and chained        *)
(* command wrappers, and the editing surface they act on.                  *)
(***************************************************************************)
EXTENDS Integers, Sequences, FiniteSets, TLC

----------------------------------------------------------------------------
(* Bounds *)

\* longest extension list the host hands to one registry build
MaxExtensions == 2
\* number of view-ready builds explored without invocations
MaxBuilds == 2
\* number of view-ready builds explored together with invocations
MaxEditorBuilds == 1
\* largest argument value passed to a command
MaxArg == 2
\* longest pending change-set explored
MaxSteps == 2
\* highest editor state number explored: every commit makes a new state
MaxTr == 3
\* longest chain expression explored (steps before run)
MaxChain == 2

Args == 1..MaxArg

----------------------------------------------------------------------------
(* Values *)

NoValue == "undefined"
\* `undefined` where an object reference is expected
NoRef == 0
NoError == "none"
DuplicateNameError == "DUPLICATE_COMMAND_NAMES"
OuterScopeError == "COMMANDS_CALLED_IN_OUTER_SCOPE"
ChainTransactionIdentityError == "CHAIN_TRANSACTION_IDENTITY"

\* a forbidden-name set that leaves `run` out
forbiddenNamesChainOnly == {"chain"}

\* the names that are forbidden from being used as a command name
forbiddenNames == {"run", "chain"}

\* the command sets extensions contribute: name -> command factory
CommandsExtension ==
  [name |-> "commands",
   createCommands |-> <<[name |-> "customTransaction", command |-> "customTransaction"]>>]

BoldExtension ==
  [name |-> "bold",
   createCommands |-> <<[name |-> "toggleBold", command |-> "mutate"]>>]

StrongExtension ==
  [name |-> "strong",
   createCommands |-> <<[name |-> "toggleBold", command |-> "undo"]>>]

TextExtension ==
  [name |-> "text",
   createCommands |-> <<[name |-> "insertText", command |-> "mutateOnly"],
                        [name |-> "replaceText", command |-> "clone"]>>]

HistoryExtension ==
  [name |-> "history",
   createCommands |-> <<[name |-> "undo", command |-> "undo"]>>]

RunExtension ==
  [name |-> "runner",
   createCommands |-> <<[name |-> "run", command |-> "mutate"]>>]

ChainExtension ==
  [name |-> "chainer",
   createCommands |-> <<[name |-> "chain", command |-> "mutateOnly"]>>]

\* an extension that has no createCommands method
PlainExtension == [name |-> "plain"]

ExtensionPool ==
  {CommandsExtension, BoldExtension, StrongExtension, TextExtension,
   HistoryExtension, RunExtension, ChainExtension, PlainExtension}

\* the ordered extension lists the host may supply: no extension twice
ExtensionLists ==
  UNION {{l \in [1..n -> ExtensionPool] :
            \A i, j \in 1..n : l[i] = l[j] => i = j} : n \in 0..MaxExtensions}

Range(f) == {f[x] : x \in DOMAIN f}

\* the object literal an extension's createCommands() returns
CreateCommands(extension) == extension.createCommands

\* Object.entries of a command set
Entries(extensionCommands) == extensionCommands

\* obj[key] = value on a plain object
Put(obj, key, value) ==
  [k \in DOMAIN obj \cup {key} |-> IF k = key THEN value ELSE obj[k]]

EmptyObject == [k \in {} |-> NoValue]

----------------------------------------------------------------------------
(* The editing surface: view.state, view.dispatch, view.focus *)

\* a change-set (transaction): an instance identity and the edits it holds
Transaction(id, steps) == [id |-> id, steps |-> steps]

\* the identity of state.tr, the pending change-set of the n-th editor state
Pending(n) == [state |-> n, copy |-> FALSE]

\* the identity of a change-set a command made for itself from state.tr
Copy(id) == [id EXCEPT !.copy = TRUE]

\* the view of a fresh editor: a document no edit has been applied to (the
\* document is kept as the number of edits applied), empty pending change-set
InitialView == [doc |-> 0, tr |-> Transaction(Pending(1), <<>>)]

\* what one call has done so far: the view it leaves, the calls it made in
\* the order it made them (view.focus, view.dispatch, a command function, a
\* transaction updater), the error thrown
Effects(view) == [view |-> view, events |-> <<>>, error |-> NoError]

FocusEvent == [type |-> "focus"]
DispatchEvent(transaction) == [type |-> "dispatch", transaction |-> transaction]
CommandEvent(command, arg, dispatch) ==
  [type |-> "command", command |-> command, arg |-> arg, dispatch |-> dispatch]
UpdaterEvent(transaction) == [type |-> "updater", transaction |-> transaction]
CreateCommandsEvent(name) == [type |-> "createCommands", extension |-> name]

\* the events of one type, in order
RECURSIVE EventsOf(_, _)
EventsOf(events, type) ==
  IF events = <<>>
    THEN <<>>
    ELSE IF events[1].type = type
           THEN <<events[1]>> \o EventsOf(Tail(events), type)
           ELSE EventsOf(Tail(events), type)

\* the calls made on the view, in order
RECURSIVE ViewCalls(_)
ViewCalls(events) ==
  IF events = <<>>
    THEN <<>>
    ELSE IF events[1].type \in {"focus", "dispatch"}
           THEN <<events[1]>> \o ViewCalls(Tail(events))
           ELSE ViewCalls(Tail(events))

FocusCount(events) == Len(EventsOf(events, "focus"))
DispatchCount(events) == Len(EventsOf(events, "dispatch"))

\* view.dispatch(transaction): applies the edits to the document; the new
\* state carries a new, empty pending change-set
ViewDispatch(transaction, fx) ==
  [fx EXCEPT !.view = [doc |-> fx.view.doc + Len(transaction.steps),
                       tr |-> Transaction(Pending(fx.view.tr.id.state + 1), <<>>)],
             !.events = Append(@, DispatchEvent(transaction))]

\* view.focus()
ViewFocus(fx) == [fx EXCEPT !.events = Append(@, FocusEvent)]

\* an edit made in place on the pending change-set state.tr
Mutate(arg, fx) == [fx EXCEPT !.view.tr.steps = Append(@, arg)]

\* a command that builds its own change-set instead of using state.tr
Clone(tr, arg) == Transaction(Copy(tr.id), Append(tr.steps, arg))

----------------------------------------------------------------------------
(* Dispatch functions handed to a command *)

\* a chain-step dispatch that commits through the view as well
GuardDispatchCommits(transaction, stateTr, fx) == ViewDispatch(transaction, fx)

\* a chain-step dispatch that accepts any change-set
GuardDispatchUnchecked(transaction, stateTr, fx) == fx

\* chainedFactory's dispatch: does nothing except check the transaction
GuardDispatch(transaction, stateTr, fx) ==
  IF transaction.id = stateTr.id
    THEN fx
    ELSE [fx EXCEPT !.error = ChainTransactionIdentityError]

\* calling the dispatch of an execution context
Dispatch(dispatch, transaction, stateTr, fx) ==
  CASE dispatch = "view" -> ViewDispatch(transaction, fx)
    [] dispatch = "guard" -> GuardDispatch(transaction, stateTr, fx)

----------------------------------------------------------------------------
(* Command functions: ({ state, dispatch, view }) => boolean *)

Return(result, fx) == [result |-> result, fx |-> fx]

\* a customTransaction that dispatches a change-set of its own
customTransactionClones(arg, dispatch, fx) ==
  IF dispatch # NoValue
    THEN LET called == [fx EXCEPT !.events = Append(@, UpdaterEvent(fx.view.tr))]
         IN  Return(TRUE, Dispatch(dispatch, Clone(fx.view.tr, arg), fx.view.tr, called))
    ELSE Return(TRUE, fx)

\* the built-in command: customTransaction(transactionUpdater)
customTransaction(arg, dispatch, fx) ==
  IF dispatch # NoValue
    THEN LET called == [fx EXCEPT !.events = Append(@, UpdaterEvent(fx.view.tr))]
             updated == Mutate(arg, called)
         IN  Return(TRUE, Dispatch(dispatch, updated.view.tr, fx.view.tr, updated))
    ELSE Return(TRUE, fx)

\* the body of the command functions extensions contribute
CommandFunction(command, arg, dispatch, fx) ==
  CASE command = "customTransaction" -> customTransaction(arg, dispatch, fx)
    [] command = "mutate" ->
         \* edits state.tr in place and dispatches it
         IF dispatch # NoValue
           THEN LET updated == Mutate(arg, fx)
                IN  Return(TRUE, Dispatch(dispatch, updated.view.tr, fx.view.tr, updated))
           ELSE Return(TRUE, fx)
    [] command = "mutateOnly" ->
         \* edits state.tr in place and leaves the dispatch to the caller
         IF dispatch # NoValue
           THEN Return(TRUE, Mutate(arg, fx))
           ELSE Return(TRUE, fx)
    [] command = "clone" ->
         \* dispatches a change-set of its own
         IF dispatch # NoValue
           THEN Return(TRUE, Dispatch(dispatch, Clone(fx.view.tr, arg), fx.view.tr, fx))
           ELSE Return(TRUE, fx)
    [] command = "undo" ->
         \* enabled only when the document holds something to take back
         IF fx.view.doc = 0
           THEN Return(FALSE, fx)
           ELSE IF dispatch # NoValue
                  THEN LET updated == Mutate(arg, fx)
                       IN  Return(TRUE, Dispatch(dispatch, updated.view.tr, fx.view.tr, updated))
                  ELSE Return(TRUE, fx)

\* the command functions that, given a dispatch, make their edit on state.tr
\* in place and hand only state.tr to the dispatch, if they dispatch at all
MutatesInPlace(command, doc) ==
  \/ command \in {"customTransaction", "mutate", "mutateOnly"}
  \/ command = "undo" /\ doc # 0

\* command(...args)({ state, dispatch, view })
Command(command, arg, dispatch, fx) ==
  CommandFunction(command, arg, dispatch,
                  [fx EXCEPT !.events = Append(@, CommandEvent(command, arg, dispatch))])

----------------------------------------------------------------------------
(* Wrappers *)

\* unchainedFactory(parameter): the closure keeps its parameter
unchainedFactory(parameter) == parameter

\* a wrapper that focuses the view once the command has returned
CallUnchainedFocusAfter(parameter, arg, fx) ==
  LET shouldDispatch ==
        IF "shouldDispatch" \in DOMAIN parameter THEN parameter.shouldDispatch ELSE TRUE
      dispatch == IF shouldDispatch THEN "view" ELSE NoValue
      ran == Command(parameter.command, arg, dispatch, fx)
  IN  IF shouldDispatch THEN Return(ran.result, ViewFocus(ran.fx)) ELSE ran

\* a wrapper that focuses the view whether it dispatches or not
CallUnchainedAlwaysFocus(parameter, arg, fx) ==
  LET shouldDispatch ==
        IF "shouldDispatch" \in DOMAIN parameter THEN parameter.shouldDispatch ELSE TRUE
      dispatch == IF shouldDispatch THEN "view" ELSE NoValue
  IN  Command(parameter.command, arg, dispatch, ViewFocus(fx))

\* a wrapper that dispatches the pending change-set itself once the command
\* has returned
CallUnchainedThenDispatch(parameter, arg, fx) ==
  LET shouldDispatch ==
        IF "shouldDispatch" \in DOMAIN parameter THEN parameter.shouldDispatch ELSE TRUE
      dispatch == IF shouldDispatch THEN "view" ELSE NoValue
      focused == IF shouldDispatch THEN ViewFocus(fx) ELSE fx
      ran == Command(parameter.command, arg, dispatch, focused)
  IN  IF shouldDispatch
        THEN Return(ran.result, ViewDispatch(ran.fx.view.tr, ran.fx))
        ELSE ran

\* calling the closure unchainedFactory returned
CallUnchained(parameter, arg, fx) ==
  LET shouldDispatch ==
        IF "shouldDispatch" \in DOMAIN parameter THEN parameter.shouldDispatch ELSE TRUE
      dispatch == IF shouldDispatch THEN "view" ELSE NoValue
      focused == IF shouldDispatch THEN ViewFocus(fx) ELSE fx
  IN  Command(parameter.command, arg, dispatch, focused)

\* chainedFactory(parameter): the closure keeps its parameter
chainedFactory(parameter) == parameter

\* a chain step that hands the command the view's own dispatch
CallChainedWithViewDispatch(parameter, arg, fx) ==
  LET ran == Command(parameter.command, arg, "view", fx)
  IN  Return(parameter.chained, ran.fx)

\* a chain step that hands back the chain only when the command returned
\* true
CallChainedStopsOnFalse(parameter, arg, fx) ==
  LET ran == Command(parameter.command, arg, "guard", fx)
  IN  Return(IF ran.result THEN parameter.chained ELSE NoRef, ran.fx)

\* a chain step that runs the command on a state of its own, so the edit
\* does not reach the pending change-set the next step sees
CallChainedOnSnapshot(parameter, arg, fx) ==
  LET ran == Command(parameter.command, arg, "guard", fx)
  IN  Return(parameter.chained, [ran.fx EXCEPT !.view = fx.view])

\* calling the closure chainedFactory returned; the result is `chained`
CallChained(parameter, arg, fx) ==
  LET ran == Command(parameter.command, arg, "guard", fx)
  IN  Return(parameter.chained, ran.fx)

\* chained.run = () => view.dispatch(view.state.tr)
RunClosure == [dispatch |-> "view"]

\* a run closure that skips the dispatch when the pending change-set holds
\* no edit
CallRunIfEdited(closure, fx) ==
  IF fx.view.tr.steps = <<>>
    THEN fx
    ELSE Dispatch(closure.dispatch, fx.view.tr, fx.view.tr, fx)

\* a run closure that dispatches the change-set that was pending when the
\* registry was built
CallRunCaptured(closure, fx) ==
  Dispatch(closure.dispatch,
           IF fx.view.tr.id = InitialView.tr.id THEN fx.view.tr ELSE InitialView.tr,
           fx.view.tr, fx)

\* calling the run closure
CallRun(closure, fx) == Dispatch(closure.dispatch, fx.view.tr, fx.view.tr, fx)

----------------------------------------------------------------------------
(* Registry build: the Name Uniqueness Guard and the per-extension visit *)

\* throwIfNameNotUnique({ name, set, code }): throws when the set already
\* has the name, otherwise adds the name to the set
throwIfNameNotUnique(name, set, code) ==
  IF name \in set
    THEN [set |-> set, error |-> code]
    ELSE [set |-> set \cup {name}, error |-> NoError]

\* a loop turn that does not ask whether the name was seen before
RegisterCommandUnguarded(extension, entry, chainedRef, acc) ==
  IF entry.name \in forbiddenNames
    THEN [acc EXCEPT !.names = @ \cup {entry.name}, !.error = DuplicateNameError]
    ELSE [names |-> acc.names \cup {entry.name},
          unchained |->
            Put(acc.unchained, entry.name,
                [name |-> extension.name,
                 command |-> unchainedFactory([command |-> entry.command]),
                 isEnabled |-> unchainedFactory([command |-> entry.command,
                                                 shouldDispatch |-> FALSE])]),
          chained |->
            Put(acc.chained, entry.name,
                chainedFactory([command |-> entry.command, chained |-> chainedRef])),
          events |-> acc.events,
          error |-> NoError]

\* one turn of the loop over entries(extensionCommands) in forEachExtension;
\* acc holds the objects of the build: names, unchained, chained
RegisterCommand(extension, entry, chainedRef, acc) ==
  LET unique == throwIfNameNotUnique(entry.name, acc.names, DuplicateNameError)
  IN  IF unique.error # NoError
        THEN [acc EXCEPT !.error = unique.error]
        ELSE IF entry.name \in forbiddenNames
               THEN [acc EXCEPT !.names = unique.set, !.error = DuplicateNameError]
               ELSE [names |-> unique.set,
                     unchained |->
                       Put(acc.unchained, entry.name,
                           [name |-> extension.name,
                            command |-> unchainedFactory([command |-> entry.command]),
                            isEnabled |-> unchainedFactory([command |-> entry.command,
                                                            shouldDispatch |-> FALSE])]),
                     chained |->
                       Put(acc.chained, entry.name,
                           chainedFactory([command |-> entry.command,
                                           chained |-> chainedRef])),
                     events |-> acc.events,
                     error |-> NoError]

\* a loop that stops after the first entry
RegisterFirstEntry(extension, entries, chainedRef, acc) ==
  IF entries = <<>> \/ acc.error # NoError
    THEN acc
    ELSE RegisterCommand(extension, Head(entries), chainedRef, acc)

\* the loop over entries(extensionCommands); a throw leaves the loop
RECURSIVE RegisterEntries(_, _, _, _)
RegisterEntries(extension, entries, chainedRef, acc) ==
  IF entries = <<>> \/ acc.error # NoError
    THEN acc
    ELSE RegisterEntries(extension, Tail(entries), chainedRef,
                         RegisterCommand(extension, Head(entries), chainedRef, acc))

\* the forEachExtension handler onView returns
forEachExtension(extension, chainedRef, acc) ==
  IF "createCommands" \notin DOMAIN extension
    THEN acc
    ELSE RegisterEntries(extension, Entries(CreateCommands(extension)), chainedRef,
                         [acc EXCEPT !.events = Append(@, CreateCommandsEvent(extension.name))])

\* the loop of afterExtensionLoop over entries(unchained): the command
\* closure with its isEnabled closure attached
AssembleCommands(commands, unchained) ==
  [commandName \in DOMAIN commands \cup DOMAIN unchained |->
     IF commandName \in DOMAIN unchained
       THEN Put(unchained[commandName].command, "isEnabled",
                unchained[commandName].isEnabled)
       ELSE commands[commandName]]

\* the objects one onView() call creates: commands, names, chained, unchained
\* an onView() that hands out the same two objects at every call
onViewShared(n) ==
  [commandsRef |-> 1, chainedRef |-> 2,
   commands |-> EmptyObject, names |-> {}, chained |-> EmptyObject,
   unchained |-> EmptyObject]

\* an onView() whose set of seen names outlives the build: a later build
\* starts with a name an earlier build registered
onViewKeepsNames(n) ==
  [commandsRef |-> 2 * n - 1, chainedRef |-> 2 * n,
   commands |-> EmptyObject, names |-> IF n = 1 THEN {} ELSE {"toggleBold"},
   chained |-> EmptyObject, unchained |-> EmptyObject]

\* the objects the n-th onView() call creates: commands, names, chained,
\* unchained; commandsRef and chainedRef are the identities of the two
\* objects that get published
onView(n) ==
  [commandsRef |-> 2 * n - 1, chainedRef |-> 2 * n,
   commands |-> EmptyObject, names |-> {}, chained |-> EmptyObject,
   unchained |-> EmptyObject]

\* the build whose onView() call created an object
BuildOf(ref) == (ref + 1) \div 2

\* an afterExtensionLoop that leaves the `chain` store key alone
afterExtensionLoopCommandsOnly(objects, store, fx) ==
  [commands |-> AssembleCommands(objects.commands, objects.unchained),
   chained |-> Put(objects.chained, "run", RunClosure),
   store |-> [store EXCEPT !.commands = objects.commandsRef],
   fx |-> fx]

\* an afterExtensionLoop that calls view.dispatch(view.state.tr) while it
\* builds run
afterExtensionLoopRunsNow(objects, store, fx) ==
  [commands |-> AssembleCommands(objects.commands, objects.unchained),
   chained |-> Put(objects.chained, "run", RunClosure),
   store |-> [store EXCEPT !.commands = objects.commandsRef,
                           !.chain = objects.chainedRef],
   fx |-> ViewDispatch(fx.view.tr, fx)]

\* the afterExtensionLoop handler onView returns: fills `commands`, attaches
\* run to `chained`, publishes both under the store keys; fx is what the
\* call does to the view it is given
afterExtensionLoop(objects, store, fx) ==
  [commands |-> AssembleCommands(objects.commands, objects.unchained),
   chained |-> Put(objects.chained, "run", RunClosure),
   store |-> [store EXCEPT !.commands = objects.commandsRef,
                           !.chain = objects.chainedRef],
   fx |-> fx]

\* a getCommands that returns whatever the store key holds
getCommandsUnchecked(store) == [result |-> store.commands, error |-> NoError]

\* the accessors onCreate publishes on the extension store
getCommands(store) ==
  LET commands == store.commands
  IN  IF commands = NoRef
        THEN [result |-> NoRef, error |-> OuterScopeError]
        ELSE [result |-> commands, error |-> NoError]

getChain(store) ==
  LET chain == store.chain
  IN  IF chain = NoRef
        THEN [result |-> NoRef, error |-> OuterScopeError]
        ELSE [result |-> chain, error |-> NoError]

\* what onCreate's afterExtensionLoop sets on the extension store
onCreate(extensionStore) == extensionStore \cup {"getCommands", "getChain"}

----------------------------------------------------------------------------
(* State *)

VARIABLES
  extensionStore,  \* the accessors published on the extension store
  store,           \* the manager store keys `commands` and `chain`
  heap,            \* the `commands` and `chained` objects alive, by identity
  build,           \* the registry build in progress, if any
  buildCount,      \* number of onView calls so far
  published,       \* the builds whose afterExtensionLoop has run
  view,            \* the editing surface: document and pending change-set
  expr,            \* the chain expression a consumer is in the middle of
  last             \* what the operation that just returned did, if any

vars ==
  <<extensionStore, store, heap, build, buildCount, published, view, expr, last>>

Idle == [active |-> FALSE]

\* no chain expression is in progress
NoExpression == [open |-> FALSE]

\* no operation is returning: the host or a consumer may call the next one
Ready == [op |-> "ready", error |-> NoError]

\* the objects still reachable from the store or the build
Keep(objects, live) == [id \in DOMAIN objects \cap live |-> objects[id]]

\* the objects a store and a chain expression refer to
Live(st, expression) ==
  {st.commands, st.chain} \cup (IF expression.open THEN {expression.chain} ELSE {})

\* the states explored: the call stays within the bounds
WithinBounds(fx) ==
  /\ fx.view.tr.id.state <= MaxTr
  /\ Len(fx.view.tr.steps) <= MaxSteps
  /\ \A i \in DOMAIN fx.events :
       fx.events[i].type = "dispatch" => Len(fx.events[i].transaction.steps) <= MaxSteps

Init ==
  /\ extensionStore = {}
  /\ store = [commands |-> NoRef, chain |-> NoRef]
  /\ heap = EmptyObject
  /\ build = Idle
  /\ buildCount = 0
  /\ published = {}
  /\ view = InitialView
  /\ expr = NoExpression
  /\ last = Ready

----------------------------------------------------------------------------
(* Lifecycle *)

\* setup phase: runs once, before any view exists
OnCreate ==
  /\ last = Ready
  /\ extensionStore = {}
  /\ extensionStore' = onCreate(extensionStore)
  /\ last' = [op |-> "onCreate", error |-> NoError]
  /\ UNCHANGED <<store, heap, build, buildCount, published, view, expr>>

\* the registry a reader of the store sees: the published objects
Registry(st, objects) ==
  [commands |-> IF st.commands = NoRef THEN NoValue ELSE objects[st.commands],
   chain |-> IF st.chain = NoRef THEN NoValue ELSE objects[st.chain]]

\* view-ready phase begins: the host calls onView() and keeps its handlers
OnView(extensions) ==
  /\ last = Ready
  /\ extensionStore # {}
  /\ ~build.active
  /\ LET objects == onView(buildCount + 1)
     IN  /\ build' = [active |-> TRUE, number |-> buildCount + 1,
                      commandsRef |-> objects.commandsRef,
                      chainedRef |-> objects.chainedRef,
                      extensions |-> extensions,
                      index |-> 1, names |-> objects.names,
                      unchained |-> objects.unchained,
                      storeAtStart |-> store,
                      registryAtStart |-> Registry(store, heap),
                      viewAtStart |-> view]
         /\ heap' = Put(Put(heap, objects.commandsRef, objects.commands),
                        objects.chainedRef, objects.chained)
  /\ buildCount' = buildCount + 1
  /\ last' = [op |-> "onView", error |-> NoError]
  /\ UNCHANGED <<extensionStore, store, published, view, expr>>

\* the host visits the next extension; a throw ends the build
ForEachExtension ==
  /\ last = Ready
  /\ build.active
  /\ build.index <= Len(build.extensions)
  /\ LET extension == build.extensions[build.index]
         acc == forEachExtension(extension, build.chainedRef,
                                 [names |-> build.names,
                                  unchained |-> build.unchained,
                                  chained |-> heap[build.chainedRef],
                                  events |-> <<>>,
                                  error |-> NoError])
     IN  /\ IF acc.error # NoError
              THEN /\ build' = Idle
                   /\ heap' = Keep(heap, Live(store, expr))
              ELSE /\ build' = [build EXCEPT !.index = @ + 1,
                                             !.names = acc.names,
                                             !.unchained = acc.unchained]
                   /\ heap' = [heap EXCEPT ![build.chainedRef] = acc.chained]
         /\ last' = [op |-> "forEachExtension", error |-> acc.error,
                     extensions |-> build.extensions, index |-> build.index,
                     storeAtStart |-> build.storeAtStart,
                     registryAtStart |-> build.registryAtStart,
                     viewAtStart |-> build.viewAtStart,
                     names |-> acc.names, events |-> acc.events]
  /\ UNCHANGED <<extensionStore, store, buildCount, published, view, expr>>

\* the host has visited every extension and calls afterExtensionLoop(view)
AfterExtensionLoop ==
  /\ last = Ready
  /\ build.active
  /\ build.index > Len(build.extensions)
  /\ LET done == afterExtensionLoop([commandsRef |-> build.commandsRef,
                                     chainedRef |-> build.chainedRef,
                                     commands |-> heap[build.commandsRef],
                                     chained |-> heap[build.chainedRef],
                                     unchained |-> build.unchained],
                                    store, Effects(view))
     IN  /\ store' = done.store
         /\ view' = done.fx.view
         /\ last' = [op |-> "afterExtensionLoop", error |-> NoError,
                     extensions |-> build.extensions,
                     storeAtStart |-> build.storeAtStart,
                     registryAtStart |-> build.registryAtStart,
                     viewAtStart |-> build.viewAtStart,
                     names |-> build.names, events |-> done.fx.events]
         /\ heap' = Keep(Put(Put(heap, build.commandsRef, done.commands),
                             build.chainedRef, done.chained),
                         Live(done.store, expr))
  /\ published' = published \cup {build.number}
  /\ build' = Idle
  /\ UNCHANGED <<extensionStore, buildCount, expr>>

----------------------------------------------------------------------------
(* Accessors *)

GetCommands ==
  /\ last = Ready
  /\ "getCommands" \in extensionStore
  /\ LET got == getCommands(store)
     IN  last' = [op |-> "getCommands", result |-> got.result, error |-> got.error]
  /\ UNCHANGED <<extensionStore, store, heap, build, buildCount, published, view, expr>>

GetChain ==
  /\ last = Ready
  /\ "getChain" \in extensionStore
  /\ LET got == getChain(store)
     IN  last' = [op |-> "getChain", result |-> got.result, error |-> got.error]
  /\ UNCHANGED <<extensionStore, store, heap, build, buildCount, published, view, expr>>

----------------------------------------------------------------------------
(* Invocation: the published wrappers called by a consumer *)

\* commands.name(arg); a chain expression in progress is cut short: the
\* steps that follow on the chain object count as a new expression
CallCommand(name, arg) ==
  /\ last = Ready
  /\ ~build.active
  /\ store.commands # NoRef
  /\ name \in DOMAIN heap[store.commands]
  /\ LET closure == heap[store.commands][name]
         ran == CallUnchained(closure, arg, Effects(view))
     IN  /\ WithinBounds(ran.fx)
         /\ view' = ran.fx.view
         /\ last' = [op |-> "command", name |-> name, arg |-> arg,
                     command |-> closure.command, result |-> ran.result,
                     error |-> ran.fx.error, events |-> ran.fx.events,
                     before |-> view, expression |-> expr]
  /\ expr' = NoExpression
  /\ heap' = Keep(heap, Live(store, NoExpression))
  /\ UNCHANGED <<extensionStore, store, build, buildCount, published>>

\* commands.name.isEnabled(arg)
CallIsEnabled(name, arg) ==
  /\ last = Ready
  /\ ~build.active
  /\ store.commands # NoRef
  /\ name \in DOMAIN heap[store.commands]
  /\ LET closure == heap[store.commands][name].isEnabled
         ran == CallUnchained(closure, arg, Effects(view))
     IN  /\ WithinBounds(ran.fx)
         /\ view' = ran.fx.view
         /\ last' = [op |-> "isEnabled", name |-> name, arg |-> arg,
                     command |-> closure.command, result |-> ran.result,
                     error |-> ran.fx.error, events |-> ran.fx.events,
                     before |-> view]
  /\ UNCHANGED <<extensionStore, store, heap, build, buildCount, published, expr>>

\* the names a consumer can call on the published commands
CommandCalls ==
  IF store.commands = NoRef THEN {} ELSE DOMAIN heap[store.commands]

\* the expression a member call belongs to: a new one that starts at the
\* published chain object, or the one in progress; it remembers the chain
\* object the next member is called on, the pending change-set it started
\* from, the number of steps called, whether every step ran a command that
\* edits in place, the edits of those steps and the calls the steps made on the
\* view
Expression(fresh) ==
  IF fresh
    THEN [open |-> TRUE, chain |-> store.chain, start |-> view.tr, length |-> 0,
          inPlace |-> TRUE, edits |-> <<>>, viewCalls |-> <<>>]
    ELSE expr

\* the step names a consumer can call on the chain object it holds
StepNames(fresh) ==
  IF fresh
    THEN IF store.chain = NoRef THEN {} ELSE DOMAIN heap[store.chain] \ {"run"}
    ELSE IF expr.open THEN DOMAIN heap[expr.chain] \ {"run"} ELSE {}

\* chain.name(arg), or name(arg) called on what the previous step returned;
\* a throw ends the expression
ChainStep(fresh, name, arg) ==
  /\ last = Ready
  /\ ~build.active
  /\ IF fresh THEN store.chain # NoRef ELSE expr.open
  /\ LET expression == Expression(fresh)
     IN  /\ expression.length < MaxChain
         /\ name \in DOMAIN heap[expression.chain] \ {"run"}
         /\ LET closure == heap[expression.chain][name]
                ran == CallChained(closure, arg, Effects(view))
                edits == MutatesInPlace(closure.command, view.doc)
                next ==
                  IF ran.fx.error # NoError
                    THEN NoExpression
                    ELSE [expression EXCEPT
                            !.chain = ran.result,
                            !.length = @ + 1,
                            !.inPlace = @ /\ edits,
                            !.edits = IF edits THEN Append(@, arg) ELSE @,
                            !.viewCalls = @ \o ViewCalls(ran.fx.events)]
            IN  /\ WithinBounds(ran.fx)
                /\ view' = ran.fx.view
                /\ expr' = next
                /\ heap' = Keep(heap, Live(store, next))
                /\ last' = [op |-> "step", name |-> name, arg |-> arg,
                            command |-> closure.command, result |-> ran.result,
                            error |-> ran.fx.error, events |-> ran.fx.events,
                            before |-> view, expression |-> expression]
  /\ UNCHANGED <<extensionStore, store, build, buildCount, published>>

\* chain.run(), or run() called on what the previous step returned: the
\* expression ends
Run(fresh) ==
  /\ last = Ready
  /\ ~build.active
  /\ IF fresh THEN store.chain # NoRef ELSE expr.open
  /\ LET expression == Expression(fresh)
     IN  /\ "run" \in DOMAIN heap[expression.chain]
         /\ LET fx == CallRun(heap[expression.chain]["run"], Effects(view))
            IN  /\ WithinBounds(fx)
                /\ view' = fx.view
                /\ last' = [op |-> "run", error |-> fx.error, events |-> fx.events,
                            before |-> view, expression |-> expression]
  /\ expr' = NoExpression
  /\ heap' = Keep(heap, Live(store, NoExpression))
  /\ UNCHANGED <<extensionStore, store, build, buildCount, published>>

\* the caller has taken the result of the operation that returned
Resume ==
  /\ last # Ready
  /\ last' = Ready
  /\ UNCHANGED <<extensionStore, store, heap, build, buildCount, published, view, expr>>

----------------------------------------------------------------------------
(* Specifications *)

\* the editor configurations explored together with invocations
EditorLists ==
  {<<CommandsExtension, TextExtension, HistoryExtension>>,
   <<PlainExtension, BoldExtension>>}

\* lifecycle and invocations of one editor
Next ==
  \/ OnCreate
  \/ \E extensions \in EditorLists :
       buildCount < MaxEditorBuilds /\ OnView(extensions)
  \/ ForEachExtension
  \/ AfterExtensionLoop
  \/ GetCommands
  \/ GetChain
  \/ \E name \in CommandCalls, arg \in Args :
       CallCommand(name, arg)
  \/ \E name \in CommandCalls, arg \in Args :
       CallIsEnabled(name, arg)
  \/ \E fresh \in BOOLEAN :
       \E name \in StepNames(fresh), arg \in Args : ChainStep(fresh, name, arg)
  \/ \E fresh \in BOOLEAN : Run(fresh)
  \/ Resume

Spec == Init /\ [][Next]_vars

\* registry builds over every extension list the host may supply
NextBuild ==
  \/ OnCreate
  \/ \E extensions \in ExtensionLists :
       buildCount < MaxBuilds /\ OnView(extensions)
  \/ ForEachExtension
  \/ AfterExtensionLoop
  \/ GetCommands
  \/ GetChain
  \/ Resume

SpecBuild == Init /\ [][NextBuild]_vars

\* registry builds of one editor between direct command calls: a build may
\* find a document and a pending change-set that hold edits
NextRebuild ==
  \/ OnCreate
  \/ \E extensions \in EditorLists :
       buildCount < MaxBuilds /\ OnView(extensions)
  \/ ForEachExtension
  \/ AfterExtensionLoop
  \/ \E name \in CommandCalls, arg \in Args :
       CallCommand(name, arg)
  \/ Resume

SpecRebuild == Init /\ [][NextRebuild]_vars

----------------------------------------------------------------------------
(* Properties of chain expressions *)

\* C1: in a chain expression chain.a(x).b(y).run() whose steps all edit the
\* pending change-set in place, the view's dispatch is called exactly once,
\* by run() after every step, with the pending change-set instance holding
\* the edits of all the steps
C1_ChainCommitsOnce ==
  (/\ last.op = "run"
   /\ last.expression.length >= 2
   /\ last.expression.inPlace)
  => /\ last.error = NoError
     /\ last.expression.viewCalls = <<>>
     /\ last.events =
          <<DispatchEvent(Transaction(last.expression.start.id,
                                      last.expression.start.steps
                                        \o last.expression.edits))>>

C1_Witness ==
  /\ last.op = "run"
  /\ last.expression.length = 2
  /\ last.expression.inPlace
  /\ last.expression.start.steps = <<>>
  /\ last.events = <<DispatchEvent(Transaction(last.before.tr.id, <<1, 2>>))>>
  /\ view.doc = last.before.doc + 2

\* C2: a chain step whose command dispatches a change-set other than the
\* pending one throws at that step; the expression ends there, so run() is
\* not reached, the view's dispatch has not been called and the document is
\* unchanged
C2_CloneFailsAtStep ==
  (last.op = "step" /\ last.command = "clone")
  => /\ last.error = ChainTransactionIdentityError
     /\ ~expr.open
     /\ DispatchCount(last.events) = 0
     /\ view.doc = last.before.doc

C2_Witness ==
  /\ last.op = "step"
  /\ last.command = "clone"
  /\ last.expression.length = 1
  /\ last.expression.edits = <<1>>
  /\ last.error = ChainTransactionIdentityError
  /\ ~expr.open
  /\ view.tr.steps = <<1>>

----------------------------------------------------------------------------
(* Properties of the registry build *)

ReservedNames == {"run", "chain"}

Least(S) == CHOOSE x \in S : \A y \in S : x <= y

\* the command names an extension contributes
Contributed(extension) ==
  IF "createCommands" \in DOMAIN extension
    THEN {entry.name : entry \in Range(extension.createCommands)}
    ELSE {}

ContributedBy(extensions) ==
  UNION {Contributed(extensions[i]) : i \in DOMAIN extensions}

\* two extensions of the list contribute the same name
Duplicated(extensions) ==
  \E i, j \in DOMAIN extensions :
    i < j /\ Contributed(extensions[i]) \cap Contributed(extensions[j]) # {}

\* the command factory the first contributor of a name supplies
FirstCommand(extensions, name) ==
  LET first == Least({i \in DOMAIN extensions : name \in Contributed(extensions[i])})
      entry == CHOOSE e \in Range(extensions[first].createCommands) : e.name = name
  IN  entry.command

\* C3: a build over a list in which two extensions contribute the same name
\* fails with DuplicateNameError at the second contributor, in either order;
\* every wrapper a build holds or publishes is the first contributor's
C3_DuplicateNameFails ==
  /\ (last.op = "forEachExtension"
      /\ Duplicated(SubSeq(last.extensions, 1, last.index)))
     => last.error = DuplicateNameError
  /\ build.active
     => \A name \in DOMAIN build.unchained :
          /\ build.unchained[name].command.command = FirstCommand(build.extensions, name)
          /\ heap[build.chainedRef][name] =
               [command |-> FirstCommand(build.extensions, name),
                chained |-> build.chainedRef]
  /\ last.op = "afterExtensionLoop"
     => /\ ~Duplicated(last.extensions)
        /\ \A name \in DOMAIN heap[store.commands] :
             /\ heap[store.commands][name].command = FirstCommand(last.extensions, name)
             /\ heap[store.chain][name] =
                  [command |-> FirstCommand(last.extensions, name),
                   chained |-> store.chain]

C3_Witness ==
  /\ last.op = "forEachExtension"
  /\ last.extensions = <<StrongExtension, BoldExtension>>
  /\ last.index = 2
  /\ last.error = DuplicateNameError
  /\ ~build.active

\* C4: visiting an extension that contributes `run` or `chain` fails the
\* build with DuplicateNameError whatever was registered before; in a
\* published registry chain.run is the terminal commit and no command is
\* named `run` or `chain`
C4_ReservedNamesFail ==
  /\ (last.op = "forEachExtension"
      /\ Contributed(last.extensions[last.index]) \cap ReservedNames # {})
     => last.error = DuplicateNameError
  /\ store.chain # NoRef
     => /\ heap[store.chain]["run"] = RunClosure
        /\ DOMAIN heap[store.commands] \cap ReservedNames = {}
        /\ (DOMAIN heap[store.chain] \ {"run"}) \cap ReservedNames = {}

C4_Witness ==
  /\ last.op = "forEachExtension"
  /\ last.extensions = <<BoldExtension, RunExtension>>
  /\ last.index = 2
  /\ last.error = DuplicateNameError
  /\ last.names = {"toggleBold", "run"}

\* C5: a build that fails a guard check publishes nothing: while a build is
\* in progress and after it has failed, the store keys and the registry
\* they lead to are what they were when the build started
C5_AbortPublishesNothing ==
  /\ build.active
     => /\ store = build.storeAtStart
        /\ Registry(store, heap) = build.registryAtStart
  /\ (last.op = "forEachExtension" /\ last.error # NoError)
     => /\ ~build.active
        /\ store = last.storeAtStart
        /\ Registry(store, heap) = last.registryAtStart

C5_Witness ==
  /\ last.op = "forEachExtension"
  /\ last.error = DuplicateNameError
  /\ last.index = 2
  /\ last.names # {}
  /\ last.storeAtStart.commands # NoRef
  /\ DOMAIN heap[store.commands] # {}
  /\ last.names \cap DOMAIN heap[store.commands] = {}

\* the names of the list are pairwise distinct and none is reserved
Clean(extensions) ==
  /\ ~Duplicated(extensions)
  /\ ContributedBy(extensions) \cap ReservedNames = {}

----------------------------------------------------------------------------
(* Properties of direct calls *)

\* the command factory registered under the name of the last direct call
CalledCommand == heap[store.commands][last.name].command

\* C7: commands.foo.isEnabled(args) calls neither view.dispatch nor
\* view.focus, leaves the view as it was and returns what foo's command
\* function returns on the current state without a dispatch
C7_IsEnabledIsPure ==
  last.op = "isEnabled"
  => /\ FocusCount(last.events) = 0
     /\ DispatchCount(last.events) = 0
     /\ last.error = NoError
     /\ view = last.before
     /\ last.result =
          CommandFunction(CalledCommand, last.arg, NoValue, Effects(last.before)).result

C7_Witness ==
  /\ last.op = "isEnabled"
  /\ last.name = "undo"
  /\ last.before.doc # 0
  /\ last.result = TRUE
  /\ view = last.before

\* C8: one direct call commands.foo(args) calls view.focus exactly once,
\* view.dispatch at most once, and returns what foo's command function
\* returns
C8_DirectCallFocusesOnce ==
  last.op = "command"
  => /\ FocusCount(last.events) = 1
     /\ DispatchCount(last.events) <= 1
     /\ last.result =
          CommandFunction(CalledCommand, last.arg, "view", Effects(last.before)).result

C8_Witness ==
  /\ last.op = "command"
  /\ last.name = "customTransaction"
  /\ FocusCount(last.events) = 1
  /\ DispatchCount(last.events) = 1
  /\ last.result = TRUE
  /\ last.events[Len(last.events)] =
       DispatchEvent(Transaction(last.before.tr.id,
                                 Append(last.before.tr.steps, last.arg)))
  /\ view.doc = last.before.doc + Len(last.before.tr.steps) + 1

----------------------------------------------------------------------------
(* Properties of the published store *)

Greatest(S) == CHOOSE x \in S : \A y \in S : x >= y

\* C9: onCreate publishes both accessors; getCommands() and getChain() throw
\* OuterScopeError while no build has completed, and afterwards return the
\* objects of the most recently completed build, never those of the build in
\* progress
C9_AccessorsResolveLatest ==
  /\ last.op = "onCreate" => extensionStore = {"getCommands", "getChain"}
  /\ last.op = "getCommands"
     => IF published = {}
          THEN last.error = OuterScopeError
          ELSE /\ last.error = NoError
               /\ last.result = 2 * Greatest(published) - 1
               /\ build.active => last.result # build.commandsRef
  /\ last.op = "getChain"
     => IF published = {}
          THEN last.error = OuterScopeError
          ELSE /\ last.error = NoError
               /\ last.result = 2 * Greatest(published)
               /\ build.active => last.result # build.chainedRef

C9_Witness ==
  /\ last.op = "getChain"
  /\ published = {1}
  /\ build.active
  /\ build.number = 2
  /\ build.names # {}
  /\ last.result = 2

\* the store shows no registry, or the complete registry of one build
CompleteOrNone ==
  \/ store.commands = NoRef /\ store.chain = NoRef
  \/ /\ store.commands # NoRef
     /\ store.chain # NoRef
     /\ BuildOf(store.commands) = BuildOf(store.chain)
     /\ BuildOf(store.commands) \in published
     /\ build.active => BuildOf(store.commands) # build.number
     /\ DOMAIN heap[store.chain] = DOMAIN heap[store.commands] \cup {"run"}
     /\ "run" \notin DOMAIN heap[store.commands]
     /\ heap[store.chain]["run"] = RunClosure
     /\ \A name \in DOMAIN heap[store.commands] :
          /\ "isEnabled" \in DOMAIN heap[store.commands][name]
          /\ heap[store.commands][name].isEnabled =
               [command |-> heap[store.commands][name].command,
                shouldDispatch |-> FALSE]
          /\ heap[store.chain][name] =
               [command |-> heap[store.commands][name].command,
                chained |-> store.chain]

\* a step leaves the objects that stay published as they are
PublishedUntouched ==
  /\ (store.commands # NoRef /\ store'.commands = store.commands)
     => heap'[store.commands] = heap[store.commands]
  /\ (store.chain # NoRef /\ store'.chain = store.chain)
     => heap'[store.chain] = heap[store.chain]

\* C10: in every state the store shows no registry or a complete registry
\* of one completed build, never the one under construction, and no step
\* changes an object that stays published
C10_RegistryCompleteOrAbsent == [](CompleteOrNone) /\ [][PublishedUntouched]_vars

C10_Witness ==
  /\ last.op = "afterExtensionLoop"
  /\ published = {1, 2}
  /\ store = [commands |-> 3, chain |-> 4]
  /\ last.storeAtStart = [commands |-> 1, chain |-> 2]
  /\ DOMAIN heap[store.commands] # {}
  /\ last.registryAtStart.commands # heap[store.commands]

----------------------------------------------------------------------------
(* Properties of the pending change-set during a chain expression *)

\* C11: from the first step of a chain expression until its run(), no direct
\* command call and no isEnabled probe mutates or commits the pending
\* change-set, so the edits of the steps are committed only by the
\* expression's run()
C11_ChainOwnsChangeSet ==
  /\ (last.op = "command" /\ last.expression.open /\ last.expression.length >= 1)
     => /\ view.tr = last.before.tr
        /\ DispatchCount(last.events) = 0
  /\ (last.op = "isEnabled" /\ expr.open /\ expr.length >= 1)
     => /\ view = last.before
        /\ DispatchCount(last.events) = 0

----------------------------------------------------------------------------
(* Properties of the built-in command *)

\* C12: customTransaction(updater) returns true; given a dispatch it calls
\* the updater once with state.tr and hands that same instance to the
\* dispatch; without a dispatch (isEnabled) it calls neither; as a chain step
\* it passes the identity check
C12_CustomTransaction ==
  (last.op \in {"command", "isEnabled", "step"} /\ last.command = "customTransaction")
  => /\ last.error = NoError
     /\ last.op # "step" => last.result = TRUE
     /\ last.op = "isEnabled"
        => /\ EventsOf(last.events, "updater") = <<>>
           /\ DispatchCount(last.events) = 0
           /\ view = last.before
     /\ last.op = "command"
        => /\ EventsOf(last.events, "updater") = <<UpdaterEvent(last.before.tr)>>
           /\ EventsOf(last.events, "dispatch") =
                <<DispatchEvent(Transaction(last.before.tr.id,
                                            Append(last.before.tr.steps, last.arg)))>>
     /\ last.op = "step"
        => /\ EventsOf(last.events, "updater") = <<UpdaterEvent(last.before.tr)>>
           /\ DispatchCount(last.events) = 0
           /\ view.tr = Transaction(last.before.tr.id,
                                    Append(last.before.tr.steps, last.arg))
           /\ expr.open

C12_Witness ==
  /\ last.op = "step"
  /\ last.command = "customTransaction"
  /\ last.expression.length = 1
  /\ last.error = NoError
  /\ EventsOf(last.events, "updater") = <<UpdaterEvent(last.before.tr)>>
  /\ view.tr.steps = <<1, 2>>

----------------------------------------------------------------------------
(* Properties of the steps of one chain expression *)

\* C13: within one chain expression each step runs its command when it is
\* called, once and to completion, and every step (and run) finds the
\* pending change-set instance the expression started on, holding the edits
\* of the previous steps in the order they were called
C13_StepsRunInOrder ==
  /\ last.op \in {"step", "run"}
     => last.before.tr =
          Transaction(last.expression.start.id,
                      last.expression.start.steps \o last.expression.edits)
  /\ last.op = "step"
     => EventsOf(last.events, "command") =
          <<CommandEvent(last.command, last.arg, "guard")>>
  /\ last.op = "run" => EventsOf(last.events, "command") = <<>>

C13_Witness ==
  /\ last.op = "step"
  /\ last.expression.length = 1
  /\ last.expression.start.steps = <<>>
  /\ last.expression.edits = <<2>>
  /\ last.arg = 1
  /\ last.before.tr.steps = <<2>>
  /\ view.tr.steps = <<2, 1>>
  /\ expr.edits = <<2, 1>>

\* the boolean the command of the last chain step returned
StepReturned ==
  CommandFunction(last.command, last.arg, "guard", Effects(last.before)).result

\* C14: a chain step that does not throw returns the chain object it was
\* called on, the one its build published as `chain`, whether its command
\* returned true or false; the expression goes on, and run() after a step
\* whose command returned false still commits the pending change-set
C14_StepReturnsChain ==
  /\ (last.op = "step" /\ last.error = NoError)
     => /\ last.result = last.expression.chain
        /\ last.expression.length = 0 => last.result = store.chain
        /\ last.result = 2 * BuildOf(last.result)
        /\ BuildOf(last.result) \in published
        /\ heap[last.result]["run"] = RunClosure
        /\ expr.open
        /\ expr.chain = last.result
  /\ (last.op = "run" /\ ~last.expression.inPlace)
     => /\ last.error = NoError
        /\ last.events = <<DispatchEvent(last.before.tr)>>

C14_Witness ==
  /\ last.op = "step"
  /\ last.command = "undo"
  /\ ~StepReturned
  /\ last.expression.length = 1
  /\ last.expression.edits = <<1>>
  /\ last.result = store.chain
  /\ expr.length = 2
  /\ ~expr.inPlace

\* C15: an isEnabled probe and a chain step call neither view.focus nor
\* view.dispatch; while an expression is made of steps and probes only,
\* without run(), no commit has happened: the document and the pending
\* change-set instance are those the expression started on
C15_ProbesAndStepsDoNotCommit ==
  /\ last.op \in {"isEnabled", "step"}
     => /\ FocusCount(last.events) = 0
        /\ DispatchCount(last.events) = 0
        /\ view.doc = last.before.doc
        /\ view.tr.id = last.before.tr.id
  /\ expr.open
     => /\ expr.viewCalls = <<>>
        /\ view.tr.id = expr.start.id

C15_Witness ==
  /\ last.op = "isEnabled"
  /\ last.command = "customTransaction"
  /\ expr.open
  /\ expr.length = 2
  /\ expr.edits = <<1, 2>>
  /\ view.doc = last.before.doc
  /\ view.tr = Transaction(expr.start.id, <<1, 2>>)

----------------------------------------------------------------------------
(* Properties of successive registry builds *)

\* C16: the set of seen names belongs to one build: it starts empty at
\* every onView(), holds exactly the names of the extensions this build has
\* visited, and a build fails with DuplicateNameError only for a name its
\* own list contributes twice or a reserved name, whatever earlier builds
\* registered or rejected
C16_NamesLiveForOneBuild ==
  /\ last.op = "onView" => build.names = {}
  /\ build.active
     => build.names = ContributedBy(SubSeq(build.extensions, 1, build.index - 1))
  /\ (last.op = "forEachExtension" /\ last.error = DuplicateNameError)
     => \/ Duplicated(SubSeq(last.extensions, 1, last.index))
        \/ Contributed(last.extensions[last.index]) \cap ReservedNames # {}

C16_Witness ==
  /\ last.op = "afterExtensionLoop"
  /\ published = {1, 2}
  /\ last.extensions = <<BoldExtension, TextExtension>>
  /\ DOMAIN last.registryAtStart.commands = ContributedBy(last.extensions)
  /\ last.names = ContributedBy(last.extensions)
  /\ DOMAIN heap[store.commands] = ContributedBy(last.extensions)

----------------------------------------------------------------------------
(* Properties of the order of effects *)

\* C17: in a direct call commands.foo(args) the first thing that happens is
\* view.focus(): the command function is invoked after it, and so is every
\* view.dispatch of the call
C17_FocusComesFirst ==
  last.op = "command"
  => /\ last.events # <<>>
     /\ last.events[1] = FocusEvent
     /\ \A i \in DOMAIN last.events :
          last.events[i].type \in {"command", "updater", "dispatch"} => i > 1
     /\ EventsOf(last.events, "command") =
          <<CommandEvent(last.command, last.arg, "view")>>

C17_Witness ==
  /\ last.op = "command"
  /\ last.command = "customTransaction"
  /\ Len(last.events) = 4
  /\ last.events[1] = FocusEvent
  /\ last.events[2] = CommandEvent("customTransaction", last.arg, "view")
  /\ last.events[3] = UpdaterEvent(last.before.tr)
  /\ last.events[4].type = "dispatch"

----------------------------------------------------------------------------
(* Properties of run() *)

\* C18: run() dispatches the change-set that is pending on the view when
\* run() is called; an expression that starts on the empty change-set an
\* earlier commit left behind commits exactly the edits of its own steps
C18_RunCommitsCurrentChangeSet ==
  last.op = "run"
  => /\ BuildOf(last.expression.chain) \in published
     /\ EventsOf(last.events, "dispatch") = <<DispatchEvent(last.before.tr)>>
     /\ last.expression.start.steps = <<>>
        => /\ last.before.tr.steps = last.expression.edits
           /\ view.doc = last.before.doc + Len(last.expression.edits)

C18_Witness ==
  /\ last.op = "run"
  /\ last.expression.chain = store.chain
  /\ last.expression.start = Transaction(Pending(2), <<>>)
  /\ last.before.doc = 1
  /\ last.expression.edits = <<2>>
  /\ last.events = <<DispatchEvent(Transaction(Pending(2), <<2>>))>>
  /\ view.doc = 2
  /\ view.tr = Transaction(Pending(3), <<>>)

\* C19: every call of run() calls view.dispatch exactly once, with the
\* pending change-set, however many steps came before it: with no step it
\* commits the change-set as it finds it, and every run() is one more commit
C19_RunCommitsOnce ==
  last.op = "run"
  => /\ last.error = NoError
     /\ DispatchCount(last.events) = 1
     /\ FocusCount(last.events) = 0
     /\ last.events[1].transaction.id = last.before.tr.id
     /\ view.tr = Transaction(Pending(last.before.tr.id.state + 1), <<>>)
     /\ last.expression.length = 0
        => /\ last.events[1].transaction = last.before.tr
           /\ view.doc = last.before.doc + Len(last.before.tr.steps)

C19_Witness ==
  /\ last.op = "run"
  /\ last.expression.length = 0
  /\ last.before = [doc |-> 0, tr |-> Transaction(Pending(2), <<>>)]
  /\ last.events = <<DispatchEvent(Transaction(Pending(2), <<>>))>>
  /\ view = [doc |-> 0, tr |-> Transaction(Pending(3), <<>>)]

----------------------------------------------------------------------------
(* Properties of a build with respect to the editing surface *)

\* C20: a view-ready build leaves the editing surface alone: visiting an
\* extension calls its createCommands once and nothing else, no command
\* function runs, and from onView() to the end of afterExtensionLoop the
\* view is neither focused nor dispatched to nor is its pending change-set
\* edited
C20_BuildLeavesViewAlone ==
  /\ build.active => view = build.viewAtStart
  /\ last.op = "forEachExtension"
     => /\ last.events =
             IF "createCommands" \in DOMAIN last.extensions[last.index]
               THEN <<CreateCommandsEvent(last.extensions[last.index].name)>>
               ELSE <<>>
        /\ view = last.viewAtStart
  /\ last.op = "afterExtensionLoop"
     => /\ last.events = <<>>
        /\ view = last.viewAtStart

C20_Witness ==
  /\ last.op = "afterExtensionLoop"
  /\ published = {1, 2}
  /\ store = [commands |-> 3, chain |-> 4]
  /\ last.storeAtStart = [commands |-> 1, chain |-> 2]
  /\ last.viewAtStart = [doc |-> 1, tr |-> Transaction(Pending(2), <<2>>)]
  /\ view = last.viewAtStart
  /\ last.events = <<>>

====
